---------------------------- MODULE Spec2Model ----------------------------
(***************************************************************************)
(* A model of the two programs of the repository:                          *)
(*                                                                         *)
(*   agent.py       one agent (osm_agent) holding the three tools, run     *)
(*                  once by main() on a hard-coded instruction; every      *)
(*                  tool catches its own faults and returns them as text.  *)
(*   sumo-agent.py  an orchestrator over three sub-agents, one tool each,  *)
(*                  driven by an interactive loop (repl); the tools raise. *)
(*                                                                         *)
(* Text is modelled as a sequence of characters (one-character strings);   *)
(* a literal fragment of an f-string is kept as one token of the sequence. *)
(* Non-ASCII characters are named by code point ("U+00F1" is n-tilde).     *)
(* The language-model planner, the map library, and the child processes    *)
(* are the environment: what they do is a choice among their outcomes.     *)
(***************************************************************************)
EXTENDS Integers, Sequences, FiniteSets, TLC

VARIABLES
    variant,     \* "agent" (agent.py) or "sumo" (sumo-agent.py)
    installed,   \* the SUMO utilities present under sys.prefix
    fs,          \* the paths that exist on the filesystem
    pc,          \* where the program is: prompt, running, exited, crashed, direct
    user_input,  \* repl: the stripped line last read; main: the fixed instruction
    calls,       \* the tool invocations of the current run, in order
    report       \* what the program last printed for a run

vars == <<variant, installed, fs, pc, user_input, calls, report>>

-----------------------------------------------------------------------------
(* Bounds of the model *)

\* Longest place name given to download_osm_map when it is called directly.
MaxNameLen == 3

\* Most tool invocations the planner makes in one run.
MaxCalls == 3

-----------------------------------------------------------------------------
(* Text *)

RECURSIVE Flatten(_)
\* "".join(parts)
Flatten(parts) ==
    IF parts = <<>> THEN <<>> ELSE Head(parts) \o Flatten(Tail(parts))

\* needle in hay, for str
IsSubstring(needle, hay) ==
    \E i \in 0..(Len(hay) - Len(needle)) :
        \A k \in 1..Len(needle) : hay[i + k] = needle[k]

\* s.rfind(c), 1-based; 0 when c does not occur
RFind(s, c) ==
    LET at == {i \in 1..Len(s) : s[i] = c}
    IN  IF at = {} THEN 0 ELSE CHOOSE i \in at : \A j \in at : j <= i

\* str.lower() on one character
LowerChar(c) ==
    CASE c = "A" -> "a"
      [] c = "E" -> "e"
      [] c = "I" -> "i"
      [] c = "P" -> "p"
      [] c = "Q" -> "q"
      [] c = "T" -> "t"
      [] c = "U" -> "u"
      [] c = "X" -> "x"
      [] c = "U+00D1" -> "U+00F1"
      [] OTHER -> c

\* str.lower()
Lower(s) == [i \in 1..Len(s) |-> LowerChar(s[i])]

\* str.replace(" ", "_")
ReplaceSpaces(s) == [i \in 1..Len(s) |-> IF s[i] = " " THEN "_" ELSE s[i]]

\* str.strip(): leading and trailing blanks removed
Strip(s) ==
    LET solid == {i \in 1..Len(s) : s[i] # " "}
    IN  IF solid = {} THEN <<>>
        ELSE LET lo == CHOOSE i \in solid : \A j \in solid : i <= j
                 hi == CHOOSE i \in solid : \A j \in solid : j <= i
             IN  SubSeq(s, lo, hi)

\* unidecode's transliteration of one character: ASCII is kept as it is,
\* n-tilde gives "n", and the ideograph U+5317 gives "Bei " (capital, blank).
UnidecodeChar(c) ==
    CASE c = "U+00F1" -> <<"n">>
      [] c = "U+00D1" -> <<"N">>
      [] c = "U+5317" -> <<"B", "e", "i", " ">>
      [] OTHER -> <<c>>

\* unidecode.unidecode(s)
Unidecode(s) == Flatten([i \in 1..Len(s) |-> UnidecodeChar(s[i])])

\* unidecode.unidecode(place_name.lower().replace(" ", "_"))
SafeName(place_name) == Unidecode(ReplaceSpaces(Lower(place_name)))

DotOsm == <<".", "o", "s", "m">>
DotNetXml == <<".", "n", "e", "t", ".", "x", "m", "l">>
DotRouXml == <<".", "r", "o", "u", ".", "x", "m", "l">>

\* filename = unidecode.unidecode(...) + ".osm"
OsmFileName(place_name) == SafeName(place_name) \o DotOsm

\* A variant of SplitextRoot that cuts at the first dot of the path.
SplitextRoot_FirstDot(p) ==
    LET dots == {i \in 1..Len(p) : p[i] = "."}
    IN  IF dots = {} THEN p
        ELSE SubSeq(p, 1, (CHOOSE i \in dots : \A j \in dots : i <= j) - 1)

\* os.path.splitext(p)[0]: the text before the last dot of the last path
\* component, unless that component has nothing but dots before it.
SplitextRoot(p) ==
    LET sepIndex == RFind(p, "/")
        dotIndex == RFind(p, ".")
    IN  IF dotIndex > sepIndex
           /\ \E k \in (sepIndex + 1)..(dotIndex - 1) : p[k] # "."
        THEN SubSeq(p, 1, dotIndex - 1)
        ELSE p

Digit(d) ==
    CASE d = 0 -> "0" [] d = 1 -> "1" [] d = 2 -> "2" [] d = 3 -> "3"
      [] d = 4 -> "4" [] d = 5 -> "5" [] d = 6 -> "6" [] d = 7 -> "7"
      [] d = 8 -> "8" [] d = 9 -> "9"

RECURSIVE IntStr(_)
\* str(n) for an int n >= 0
IntStr(n) == IF n < 10 THEN <<Digit(n)>> ELSE IntStr(n \div 10) \o <<Digit(n % 10)>>

\* str(x) for a float x >= 0 held in tenths: 10 is 1.0, 5 is 0.5
FloatStr(tenths) == IntStr(tenths \div 10) \o <<".">> \o <<Digit(tenths % 10)>>

-----------------------------------------------------------------------------
(* The environment of the tools *)

\* A variant of os_path_exists that finds every path.
os_path_exists_Always(path) == TRUE

\* os.path.exists(path), before the tool has run anything
os_path_exists(path) == path \in fs

OsmBuild == "osmBuild.py"
RandomTrips == "randomTrips.py"
Utilities == {OsmBuild, RandomTrips}

\* os.path.join(sys.prefix, "Lib", "site-packages", "sumo", "tools", name)
ScriptPath(name) ==
    <<"sys.prefix", "os.sep", "Lib", "os.sep", "site-packages", "os.sep",
      "sumo", "os.sep", "tools", "os.sep", name>>

\* What a utility may write on standard error when it fails.
ToolStderr == <<"E", "r", "r", "o", "r", ":", " ", "x">>

\* What the interpreter writes when the script it is given does not exist.
NoScriptStderr == <<"python: can't open file">>

\* subprocess.run(["python", script, ...], capture_output=True, text=True):
\* the ways the child can end.  A utility that is installed exits 0, having
\* written its output file or not, or exits 1 with text on standard error;
\* with no script at that path the interpreter itself exits 2.  The
\* interpreter "python" is taken to be on the PATH.
ChildRuns(name) ==
    IF name \in installed
    THEN {[returncode |-> 0, stderr |-> <<>>, wrote |-> TRUE],
          [returncode |-> 0, stderr |-> <<>>, wrote |-> FALSE],
          [returncode |-> 1, stderr |-> ToolStderr, wrote |-> FALSE]}
    ELSE {[returncode |-> 2, stderr |-> NoScriptStderr, wrote |-> FALSE]}

\* The file osmBuild.py writes: <prefix>.net.xml, the prefix being the one
\* passed with --prefix, or the utility's own default "osm".
OsmBuildOutput(argv) ==
    LET at == {i \in 1..(Len(argv) - 1) : argv[i] = <<"--prefix">>}
    IN  IF at = {} THEN <<"o", "s", "m">> \o DotNetXml
        ELSE argv[(CHOOSE i \in at : TRUE) + 1] \o DotNetXml

\* The file randomTrips.py writes: the one named after --route-file.
RandomTripsOutput(argv) ==
    LET at == {i \in 1..(Len(argv) - 1) : argv[i] = <<"--route-file">>}
    IN  argv[(CHOOSE i \in at : TRUE) + 1]

RECURSIVE JoinQuoted(_)
\* the repr of a list of str, without its brackets
JoinQuoted(argv) ==
    IF argv = <<>> THEN <<>>
    ELSE <<"'">> \o Head(argv) \o <<"'">>
         \o (IF Tail(argv) = <<>> THEN <<>> ELSE <<", ">> \o JoinQuoted(Tail(argv)))

\* str(e) of the subprocess.CalledProcessError that check=True raises
CalledProcessErrorStr(argv, returncode) ==
    <<"Command '[">> \o JoinQuoted(argv) \o <<"]' returned non-zero exit status ">>
    \o IntStr(returncode) \o <<".">>

\* What the map library raises when the place cannot be retrieved.
RetrievalErrorStr == <<"osmnx: no data for the place">>

NoParams == [duration |-> <<>>, period |-> <<>>]

\* A value returned by a tool.
Returned(branch, text) ==
    [how |-> "return", branch |-> branch, exc |-> "", text |-> text, stderr |-> <<>>]

\* An exception raised by a tool; stderr is the exception's stderr attribute.
Raised(branch, exc, text, stderr) ==
    [how |-> "raise", branch |-> branch, exc |-> exc, text |-> text, stderr |-> stderr]

\* The record of one tool invocation.
Invocation(tool, arg, params, child, created, res) ==
    [tool |-> tool, arg |-> arg, params |-> params, child |-> child,
     created |-> created, res |-> res]

ChildRecord(argv, run) ==
    <<[argv |-> argv, returncode |-> run.returncode, stderr |-> run.stderr]>>

-----------------------------------------------------------------------------
(* The tools of agent.py: every fault is returned as text *)

Download == "download_osm_map"
Convert == "convert_osm_to_sumo"
Generate == "generate_sumo_demand"

\* def generate_sumo_demand(net_file, duration: int = 3600, period: float = 1.0)
agent_default_duration == 3600
\* the default period, 1.0, in tenths
agent_default_period == 10

agent_download_osm_map(place_name) ==
    LET filename == OsmFileName(place_name)
    IN  {Invocation(Download, place_name, NoParams, <<>>, {filename},
                    Returned("ok", filename)),
         Invocation(Download, place_name, NoParams, <<>>, {},
                    Returned("retrieval_error",
                             <<"Error durante la descarga: ">> \o RetrievalErrorStr))}

agent_convert_osm_to_sumo(osm_file) ==
    LET output_file == SplitextRoot(osm_file) \o DotNetXml
        osm_build_script == ScriptPath(OsmBuild)
        cmd == << <<"python">>, osm_build_script, <<"--osm-file">>, osm_file >>
    IN  IF ~os_path_exists(osm_file)
        THEN {Invocation(Convert, osm_file, NoParams, <<>>, {},
                         Returned("missing_input",
                                  <<"El archivo '">> \o osm_file \o <<"' no existe.">>))}
        ELSE IF OsmBuild \notin installed
        THEN {Invocation(Convert, osm_file, NoParams, <<>>, {},
                         Returned("missing_tool",
                                  <<"No se encontro osmBuild.py en '">>
                                  \o osm_build_script \o <<"'.">>))}
        ELSE {Invocation(Convert, osm_file, NoParams, ChildRecord(cmd, run),
                         IF run.wrote THEN {OsmBuildOutput(cmd)} ELSE {},
                         IF run.returncode # 0
                         THEN Returned("nonzero_exit",
                                       <<"Error al convertir el OSM: ">> \o run.stderr)
                         ELSE Returned("ok",
                                       <<"Archivo SUMO generado correctamente: '">>
                                       \o output_file \o <<"'">>))
              : run \in ChildRuns(OsmBuild)}

\* The summary both programs return, after its first line.
DemandSummary(net_file, routes_file, duration, period) ==
    <<"- Red: ">> \o net_file \o <<"\n- Rutas: ">> \o routes_file
    \o <<"\n- Duracion: ">> \o IntStr(duration) \o <<"s\n- Periodo: ">>
    \o FloatStr(period) \o <<"s">>

\* ["python", script, "-n", net_file, "-e", str(duration), "-p", str(period),
\*  "--trip-attributes", ..., "--route-file", routes_file]
RandomTripsCmd(net_file, routes_file, duration, period) ==
    << <<"python">>, ScriptPath(RandomTrips), <<"-n">>, net_file,
       <<"-e">>, IntStr(duration), <<"-p">>, FloatStr(period),
       <<"--trip-attributes">>, <<"departLane=\"best\" departSpeed=\"max\"">>,
       <<"--route-file">>, routes_file >>

agent_generate_sumo_demand(net_file, params) ==
    LET duration == IF params.duration = <<>> THEN agent_default_duration
                    ELSE params.duration[1]
        period == IF params.period = <<>> THEN agent_default_period
                  ELSE params.period[1]
        base_name == SplitextRoot(net_file)
        routes_file == base_name \o DotRouXml
        random_trips_script == ScriptPath(RandomTrips)
        cmd == RandomTripsCmd(net_file, routes_file, duration, period)
    IN  IF ~os_path_exists(net_file)
        THEN {Invocation(Generate, net_file, params, <<>>, {},
                         Returned("missing_input",
                                  <<"El archivo de red '">> \o net_file
                                  \o <<"' no existe.">>))}
        ELSE IF RandomTrips \notin installed
        THEN {Invocation(Generate, net_file, params, <<>>, {},
                         Returned("missing_tool",
                                  <<"No se encontro randomTrips.py en '">>
                                  \o random_trips_script \o <<"'.">>))}
        ELSE {Invocation(Generate, net_file, params, ChildRecord(cmd, run),
                         IF run.wrote THEN {RandomTripsOutput(cmd)} ELSE {},
                         IF run.returncode # 0
                         THEN Returned("nonzero_exit",
                                       <<"Error al generar la demanda: ">> \o run.stderr)
                         ELSE Returned("ok",
                                       <<"Demanda SUMO generada correctamente:\n">>
                                       \o DemandSummary(net_file, routes_file,
                                                        duration, period)))
              : run \in ChildRuns(RandomTrips)}

-----------------------------------------------------------------------------
(* The tools of sumo-agent.py: every fault is raised *)

\* def generate_sumo_demand(net_file, duration: int = 1800, period: float = 1.0)
sumo_default_duration == 1800
\* the default period, 1.0, in tenths
sumo_default_period == 10

sumo_download_osm_map(place_name) ==
    LET filename == OsmFileName(place_name)
    IN  {Invocation(Download, place_name, NoParams, <<>>, {filename},
                    Returned("ok", filename)),
         Invocation(Download, place_name, NoParams, <<>>, {},
                    Raised("retrieval_error", "Exception", RetrievalErrorStr, <<>>))}

sumo_convert_osm_to_sumo(osm_file) ==
    LET base_name == SplitextRoot(osm_file)
        output_net == base_name \o DotNetXml
        osm_build_script == ScriptPath(OsmBuild)
        cmd == << <<"python">>, osm_build_script, <<"--osm-file">>, osm_file,
                  <<"--prefix">>, base_name >>
    IN  IF ~os_path_exists(osm_file)
        THEN {Invocation(Convert, osm_file, NoParams, <<>>, {},
                         Raised("missing_input", "FileNotFoundError", osm_file, <<>>))}
        ELSE {LET created == IF run.wrote THEN {OsmBuildOutput(cmd)} ELSE {}
              IN  Invocation(Convert, osm_file, NoParams, ChildRecord(cmd, run), created,
                      IF run.returncode # 0
                      THEN Raised("nonzero_exit", "CalledProcessError",
                                  CalledProcessErrorStr(cmd, run.returncode), run.stderr)
                      ELSE IF output_net \notin (fs \cup created)
                      THEN Raised("missing_output", "RuntimeError",
                                  <<"No se genero el archivo esperado: ">> \o output_net,
                                  <<>>)
                      ELSE Returned("ok", output_net))
              : run \in ChildRuns(OsmBuild)}

sumo_generate_sumo_demand(net_file, params) ==
    LET duration == IF params.duration = <<>> THEN sumo_default_duration
                    ELSE params.duration[1]
        period == IF params.period = <<>> THEN sumo_default_period
                  ELSE params.period[1]
        base == SplitextRoot(net_file)
        routes_file == base \o DotRouXml
        cmd == RandomTripsCmd(net_file, routes_file, duration, period)
    IN  IF ~os_path_exists(net_file)
        THEN {Invocation(Generate, net_file, params, <<>>, {},
                         Raised("missing_input", "FileNotFoundError", net_file, <<>>))}
        ELSE {Invocation(Generate, net_file, params, ChildRecord(cmd, run),
                         IF run.wrote THEN {RandomTripsOutput(cmd)} ELSE {},
                         IF run.returncode # 0
                         THEN Raised("nonzero_exit", "CalledProcessError",
                                     CalledProcessErrorStr(cmd, run.returncode),
                                     run.stderr)
                         ELSE Returned("ok",
                                       <<"Demanda generada correctamente:\n">>
                                       \o DemandSummary(net_file, routes_file,
                                                        duration, period)))
              : run \in ChildRuns(RandomTrips)}

-----------------------------------------------------------------------------
(* The tools of the program that is running *)

download_osm_map(place_name) ==
    IF variant = "agent" THEN agent_download_osm_map(place_name)
    ELSE sumo_download_osm_map(place_name)

convert_osm_to_sumo(osm_file) ==
    IF variant = "agent" THEN agent_convert_osm_to_sumo(osm_file)
    ELSE sumo_convert_osm_to_sumo(osm_file)

generate_sumo_demand(net_file, params) ==
    IF variant = "agent" THEN agent_generate_sumo_demand(net_file, params)
    ELSE sumo_generate_sumo_demand(net_file, params)

-----------------------------------------------------------------------------
(* Inputs *)

Pamplona == <<"P", "a", "m", "p", "l", "o", "n", "a">>
PamplonaOsm == <<"p", "a", "m", "p", "l", "o", "n", "a", ".", "o", "s", "m">>
PamplonaNetXml ==
    <<"p", "a", "m", "p", "l", "o", "n", "a", ".", "n", "e", "t", ".", "x", "m", "l">>

\* What the planner passes to the tools: the place of the instruction, and
\* the file names that go with it.
PlaceArgs == {Pamplona}
ConvertArgs == {PamplonaOsm}
GenerateArgs == {PamplonaNetXml}
PathArgs == ConvertArgs \cup GenerateArgs

\* The duration and period the planner passes: neither, or both.
ParamArgs == {NoParams, [duration |-> <<600>>, period |-> <<5>>]}

\* The lines typed at the prompt of the repl.
Lines == {<<"e", "x", "i", "t">>, <<"Q", "U", "I", "T", " ">>, <<" ">>, Pamplona}

\* The characters of the place names given to download_osm_map directly.
NameChars == {"a", "P", " ", ",", "U+00F1", "U+5317"}

RECURSIVE SeqsUpTo(_, _)
SeqsUpTo(S, n) ==
    IF n = 0 THEN {<<>>}
    ELSE LET shorter == SeqsUpTo(S, n - 1)
         IN  shorter \cup {Append(q, c) : q \in shorter, c \in S}

NameInputs == SeqsUpTo(NameChars, MaxNameLen) \ {<<>>}

\* The paths given to the converter and the generator directly.
DirectPaths == PathArgs \cup {<<"d", ".", "v", "/", "m">>, <<".", "o", "s", "m">>}

-----------------------------------------------------------------------------
(* The programs *)

NoReport == [kind |-> "none", exc |-> "", text |-> <<>>]

\* result.final_output: the planner's closing text.
FinalOutput == <<"final_output">>

\* What Runner.run raises when the run itself fails (the model call, the turn limit).
RunnerErrorStr == <<"agents: the run failed">>

\* The hard-coded instruction of agent.py's main().
MainInstruction == <<"Descarga y convierte a red de SUMO el mapa de Pamplona">>

\* The exception handler of the repl, variant that leaves the loop.
repl_except_Breaks(exc, text) ==
    /\ report' = [kind |-> "error", exc |-> exc, text |-> text]
    /\ pc' = "exited"

\* except Exception as e: print("Error durante la ejecucion:"); print(e) -- and
\* the while loop goes round again.
repl_except(exc, text) ==
    /\ report' = [kind |-> "error", exc |-> exc, text |-> text]
    /\ pc' = "prompt"

\* An exception leaves Runner.run: the repl catches it; main() has no handler
\* and the interpreter ends with a traceback.
RunFails(exc, text) ==
    IF variant = "sumo" THEN repl_except(exc, text)
    ELSE /\ report' = [kind |-> "traceback", exc |-> exc, text |-> text]
         /\ pc' = "crashed"

\* One tool invocation by the planner.  The programs register the tools and
\* give the order of the stages as instruction text only, so the planner may
\* call any of them next.  A value returned goes back to the planner.  An
\* exception raised either goes back to the planner as the tool's output or
\* leaves Runner.run, as the agent framework decides.  The sub-agents of
\* sumo-agent.py, one tool each, are folded into the planner.
ToolCall(o, propagates) ==
    /\ calls' = Append(calls, o)
    /\ fs' = fs \cup o.created
    /\ IF o.res.how = "raise" /\ propagates
       THEN RunFails(o.res.exc, o.res.text)
       ELSE UNCHANGED <<pc, report>>
    /\ UNCHANGED <<variant, installed, user_input>>

Propagation == IF variant = "sumo" THEN BOOLEAN ELSE {FALSE}

\* The planner may call a tool while the run lasts.
PlannerTurn == pc = "running" /\ Len(calls) < MaxCalls

planner_download ==
    /\ PlannerTurn
    /\ \E place_name \in PlaceArgs, propagates \in Propagation :
         \E o \in download_osm_map(place_name) : ToolCall(o, propagates)

planner_convert ==
    /\ PlannerTurn
    /\ \E osm_file \in ConvertArgs, propagates \in Propagation :
         \E o \in convert_osm_to_sumo(osm_file) : ToolCall(o, propagates)

planner_generate ==
    /\ PlannerTurn
    /\ \E net_file \in GenerateArgs, params \in ParamArgs, propagates \in Propagation :
         \E o \in generate_sumo_demand(net_file, params) : ToolCall(o, propagates)

\* Runner.run raises by itself.
run_raises ==
    /\ pc = "running"
    /\ RunFails("Exception", RunnerErrorStr)
    /\ UNCHANGED <<variant, installed, fs, user_input, calls>>

\* repl: Runner.run returns and the result is printed; back to the prompt.
repl_result ==
    /\ pc = "running"
    /\ report' = [kind |-> "result", exc |-> "", text |-> FinalOutput]
    /\ pc' = "prompt"
    /\ UNCHANGED <<variant, installed, fs, user_input, calls>>

\* ("exit", "quit")
ExitTokens == {<<"e", "x", "i", "t">>, <<"q", "u", "i", "t">>}

\* repl: input() returns a line; it is stripped, and it ends the loop, is
\* skipped when empty, or is handed to Runner.run.
repl_input ==
    /\ pc = "prompt"
    /\ \E line \in Lines :
         /\ user_input' = Strip(line)
         /\ IF Lower(user_input') \in ExitTokens
            THEN /\ pc' = "exited"
                 /\ report' = [kind |-> "bye", exc |-> "", text |-> <<>>]
                 /\ UNCHANGED calls
            ELSE IF user_input' = <<>>
            THEN UNCHANGED <<pc, report, calls>>
            ELSE \* a new run: its record and its report start empty
                 /\ pc' = "running"
                 /\ calls' = <<>>
                 /\ report' = NoReport
    /\ UNCHANGED <<variant, installed, fs>>

\* repl: input() raises EOFError at the end of standard input, outside the try.
repl_eof ==
    /\ pc = "prompt"
    /\ pc' = "crashed"
    /\ report' = [kind |-> "traceback", exc |-> "EOFError", text |-> <<>>]
    /\ UNCHANGED <<variant, installed, fs, user_input, calls>>

\* main: Runner.run returns, print(result), and the program ends.
main_result ==
    /\ pc = "running"
    /\ report' = [kind |-> "result", exc |-> "", text |-> FinalOutput]
    /\ pc' = "exited"
    /\ UNCHANGED <<variant, installed, fs, user_input, calls>>

\* One tool called on its own, as a test calls it.
DirectCall(o) ==
    /\ pc' = "called"
    /\ calls' = Append(calls, o)
    /\ fs' = fs \cup o.created
    /\ UNCHANGED <<variant, installed, user_input, report>>

direct_download ==
    /\ pc = "direct"
    /\ \E place_name \in NameInputs :
         \E o \in download_osm_map(place_name) : DirectCall(o)

direct_convert ==
    /\ pc = "direct"
    /\ \E osm_file \in DirectPaths :
         \E o \in convert_osm_to_sumo(osm_file) : DirectCall(o)

direct_generate ==
    /\ pc = "direct"
    /\ \E net_file \in DirectPaths, params \in ParamArgs :
         \E o \in generate_sumo_demand(net_file, params) : DirectCall(o)

\* The end-to-end scenario: what the converter returned is fed to the generator.
chained_generate ==
    /\ pc = "called"
    /\ Len(calls) = 1
    /\ calls[1].tool = Convert
    /\ calls[1].res.how = "return"
    /\ \E params \in ParamArgs :
         \E o \in generate_sumo_demand(calls[1].res.text, params) : DirectCall(o)

-----------------------------------------------------------------------------
(* Specifications *)

\* sumo-agent.py
Init ==
    /\ variant = "sumo"
    /\ installed \in SUBSET Utilities
    /\ fs = {}
    /\ pc = "prompt"
    /\ user_input = <<>>
    /\ calls = <<>>
    /\ report = NoReport

Next ==
    \/ repl_input
    \/ repl_eof
    \/ planner_download
    \/ planner_convert
    \/ planner_generate
    \/ repl_result
    \/ run_raises

Spec == Init /\ [][Next]_vars

\* agent.py
InitAgent ==
    /\ variant = "agent"
    /\ installed \in SUBSET Utilities
    /\ fs \in SUBSET PathArgs
    /\ pc = "running"
    /\ user_input = MainInstruction
    /\ calls = <<>>
    /\ report = NoReport

NextAgent ==
    \/ planner_download
    \/ planner_convert
    \/ planner_generate
    \/ main_result
    \/ run_raises

SpecAgent == InitAgent /\ [][NextAgent]_vars

\* The tools of either program, each called once on its own.
InitTools ==
    /\ variant \in {"agent", "sumo"}
    /\ installed \in SUBSET Utilities
    /\ fs \in SUBSET PathArgs
    /\ pc = "direct"
    /\ user_input = <<>>
    /\ calls = <<>>
    /\ report = NoReport

NextTools ==
    \/ direct_download
    \/ direct_convert
    \/ direct_generate
    \/ chained_generate

SpecTools == InitTools /\ [][NextTools]_vars

-----------------------------------------------------------------------------
(* Reading the record of a run *)

\* The most recent tool invocation; fs is the filesystem it left.
Last == calls[Len(calls)]

Failed(o) == o.res.branch # "ok"

ChildInvoked(o) == o.child # <<>>

\* The argument that follows flag on the child's command line.
ArgAfter(argv, flag) ==
    argv[(CHOOSE i \in 1..(Len(argv) - 1) : argv[i] = flag) + 1]

\* The stage order of the pipeline: fetch, convert, generate.
Stages == <<Download, Convert, Generate>>

PamplonaRouXml ==
    <<"p", "a", "m", "p", "l", "o", "n", "a", ".", "r", "o", "u", ".", "x", "m", "l">>
PamplonaNetRouXml ==
    <<"p", "a", "m", "p", "l", "o", "n", "a", ".", "n", "e", "t",
      ".", "r", "o", "u", ".", "x", "m", "l">>

\* [a-z0-9_.]
AllowedChars ==
    {"a", "b", "c", "d", "e", "f", "g", "h", "i", "j", "k", "l", "m", "n", "o",
     "p", "q", "r", "s", "t", "u", "v", "w", "x", "y", "z", "0", "1", "2", "3",
     "4", "5", "6", "7", "8", "9", "_", "."}

-----------------------------------------------------------------------------
(* The claims *)

\* C1, in the instance the claim names: no stage is invoked after one that
\* failed, so that in a run whose fetch succeeded and whose conversion of the
\* fetched file failed, the demand generation is invoked zero times,
\* whatever files earlier runs left behind.
C1_NoDemandAfterFailedConversion ==
    (/\ Len(calls) >= 2
     /\ calls[1].tool = Download /\ ~Failed(calls[1])
     /\ calls[2].tool = Convert /\ calls[2].arg = calls[1].res.text
     /\ Failed(calls[2]))
        => \A j \in DOMAIN calls : calls[j].tool # Generate

\* A step in which the run of an instruction ends by an exception.
RunRaisedStep == pc = "running" /\ pc' # "running" /\ report'.kind # "result"

\* A run of the repl that raises prints a failure indication and the loop is
\* back at its prompt, where input() reads the next line.
FailureKeepsSession ==
    /\ [][RunRaisedStep => (report'.kind = "error" /\ pc' = "prompt")]_vars
    /\ [](report.kind = "error" => pc = "prompt")
    /\ [](pc = "prompt" => ENABLED repl_input)

\* C2 as stated: every run that raises is reported and followed by the next
\* prompt, and the session ends only when an exit token is entered.
C2_EndsOnlyOnExitToken ==
    /\ FailureKeepsSession
    /\ [](pc \in {"exited", "crashed"} => Lower(user_input) \in ExitTokens)

\* C2 as amended: every run that raises an Exception is reported and
\* followed by the next prompt; the session ends when an exit token is
\* entered, or when input() itself raises at the prompt (end of input).
C2_EndsOnExitTokenOrEof ==
    /\ FailureKeepsSession
    /\ [](pc = "exited" => Lower(user_input) \in ExitTokens)
    /\ [](pc = "crashed" => report.exc = "EOFError")

\* A failed run has been reported and the repl is at its prompt again.
C2_Witness ==
    /\ pc = "prompt"
    /\ report.kind = "error"
    /\ calls # <<>>
    /\ Last.res.how = "raise"

\* C3: a run invokes fetch, convert, generate in that order, each at most
\* once, each stage given what the stage before it returned, and nothing
\* after a stage that failed.
C3_StrictOrder ==
    /\ Len(calls) <= Len(Stages)
    /\ \A i \in DOMAIN calls : i <= Len(Stages) => calls[i].tool = Stages[i]
    /\ \A i \in DOMAIN calls :
         i > 1 => /\ ~Failed(calls[i - 1])
                  /\ calls[i].arg = calls[i - 1].res.text

\* C4: a converter whose child exits 0 without leaving <root>.net.xml reports
\* a failure, never a success.
C4_OutputVerified ==
    (/\ calls # <<>>
     /\ Last.tool = Convert
     /\ ChildInvoked(Last)
     /\ Last.child[1].returncode = 0
     /\ (SplitextRoot(Last.arg) \o DotNetXml) \notin fs)
        => Failed(Last)

\* C5: with neither duration nor period supplied, the generator's child is
\* asked for -e 1800 and -p 1.0.
C5_DefaultParams ==
    (/\ calls # <<>>
     /\ Last.tool = Generate
     /\ Last.params = NoParams
     /\ ChildInvoked(Last))
        => /\ ArgAfter(Last.child[1].argv, <<"-e">>) = <<"1", "8", "0", "0">>
           /\ ArgAfter(Last.child[1].argv, <<"-p">>) = <<"1", ".", "0">>

\* What C6 says of sumo-agent.py's tools, the route file being named route:
\* the converter given pamplona.osm returns exactly pamplona.net.xml, and the
\* generator given pamplona.net.xml asks its child for route and, when it
\* succeeds, names both files in its summary.
PamplonaChain(route) ==
    \A i \in DOMAIN calls :
        LET o == calls[i]
        IN  /\ (o.tool = Convert /\ o.arg = PamplonaOsm /\ ~Failed(o))
                => o.res.text = PamplonaNetXml
            /\ (o.tool = Generate /\ o.arg = PamplonaNetXml /\ ChildInvoked(o))
                => ArgAfter(o.child[1].argv, <<"--route-file">>) = route
            /\ (o.tool = Generate /\ o.arg = PamplonaNetXml /\ ~Failed(o))
                => /\ IsSubstring(PamplonaNetXml, o.res.text)
                   /\ IsSubstring(route, o.res.text)

\* C6 as stated: the route file is pamplona.rou.xml.
C6_RouteIsPamplonaRou == variant = "sumo" => PamplonaChain(PamplonaRouXml)

\* C6 as amended: only the last extension, .xml, is replaced, so the route
\* file requested and reported is pamplona.net.rou.xml.
C6_RouteIsPamplonaNetRou == variant = "sumo" => PamplonaChain(PamplonaNetRouXml)

\* The converter returned pamplona.net.xml, and the generator fed that
\* path succeeded.
C6_Witness ==
    /\ variant = "sumo"
    /\ Len(calls) = 2
    /\ calls[1].tool = Convert /\ calls[1].arg = PamplonaOsm /\ ~Failed(calls[1])
    /\ calls[2].tool = Generate /\ calls[2].arg = calls[1].res.text
    /\ ~Failed(calls[2])

\* The not-found condition of either program for the path given.
NotFoundResult(o) ==
    IF variant = "sumo"
    THEN o.res.how = "raise" /\ o.res.exc = "FileNotFoundError" /\ o.res.text = o.arg
    ELSE /\ o.res.how = "return"
         /\ o.res.text \in {<<"El archivo '">> \o o.arg \o <<"' no existe.">>,
                            <<"El archivo de red '">> \o o.arg \o <<"' no existe.">>}

\* C7: the converter and the generator, given a path that does not exist,
\* fail with the not-found condition and invoke no child process.
C7_MissingInput ==
    (/\ calls # <<>>
     /\ Last.tool \in {Convert, Generate}
     /\ Last.arg \notin fs)
        => /\ NotFoundResult(Last)
           /\ ~ChildInvoked(Last)
           /\ Last.created = {}

\* The converter of sumo-agent.py was given a path that does not exist.
C7_Witness ==
    /\ calls # <<>>
    /\ variant = "sumo"
    /\ Last.tool = Convert
    /\ Last.arg \notin fs
    /\ Last.res.exc = "FileNotFoundError"

\* C8: when the converter's child exits non-zero, the error the program
\* reports carries the child's standard-error text.
C8_StderrReported ==
    (/\ calls # <<>>
     /\ Last.tool = Convert
     /\ ChildInvoked(Last)
     /\ Last.child[1].returncode # 0
     /\ report.kind = "error"
     /\ report.exc = Last.res.exc)
        => IsSubstring(Last.child[1].stderr, report.text)

\* C9: the file name download_osm_map derives has only characters of
\* [a-z0-9_.], and normalizing its stem again leaves it unchanged.
C9_SafeFilename ==
    (/\ calls # <<>>
     /\ Last.tool = Download
     /\ ~Failed(Last))
        => LET filename == Last.res.text
               stem == SubSeq(filename, 1, Len(filename) - Len(DotOsm))
           IN  /\ \A i \in DOMAIN filename : filename[i] \in AllowedChars
               /\ SafeName(stem) = stem

\* C10: with osmBuild.py absent the converter fails with a tool-not-found
\* condition of its own and invokes no child; with randomTrips.py absent
\* the generator fails.
C10_ToolNotFound ==
    /\ (/\ calls # <<>>
        /\ Last.tool = Convert
        /\ Last.arg \in fs
        /\ OsmBuild \notin installed)
           => Last.res.branch = "missing_tool" /\ ~ChildInvoked(Last)
    /\ (/\ calls # <<>>
        /\ Last.tool = Generate
        /\ Last.arg \in fs
        /\ RandomTrips \notin installed)
           => Failed(Last)

=============================================================================
